---- MODULE Spec2Model ----
(***************************************************************************)
(* knock: natural language to shell command translator.                    *)
(*                                                                         *)
(* The model covers the request pipeline of src/main.rs (main and          *)
(* explain_command), the response cache of src/cache.rs and the provider   *)
(* client of src/client.rs.  Text is modelled as sequences of bytes        *)
(* (0..255), the on-disk store as a function from keys to stored bytes.    *)
(***************************************************************************)
EXTENDS Integers, Sequences, FiniteSets, TLC

(***************************************************************************)
(* Bounds of the model.                                                    *)
(***************************************************************************)
\* number of process invocations in one behaviour
MaxProcs == 2
\* longest query handed to Cache::generate_key and to gen_prompt by SpecPure
MaxStrLen == 1

(***************************************************************************)
(* 64-bit words as four 16-bit limbs, least significant first: the         *)
(* arithmetic of std's DefaultHasher (SipHash-1-3 with a zero key), which  *)
(* Cache::generate_key uses.                                               *)
(***************************************************************************)
\* the element of a one-element set; {F(x) : x \in {e}} binds x to the value
\* of e, so that each step below is computed once
The(S) == CHOOSE y \in S : TRUE

Pow2(n) ==
    <<1, 2, 4, 8, 16, 32, 64, 128, 256, 512, 1024, 2048, 4096, 8192, 16384, 32768,
      65536>>[n + 1]

\* bitwise exclusive or of two 16-bit limbs, from bit i up
RECURSIVE XorBits(_, _, _)
XorBits(a, b, i) ==
    IF i = 16 THEN 0
    ELSE (((a \div Pow2(i)) + (b \div Pow2(i))) % 2) * Pow2(i) + XorBits(a, b, i + 1)

WXor(a, b) == The({[i \in 1..4 |-> XorBits(p[1][i], p[2][i], 0)] : p \in {<<a, b>>}})

\* u64::wrapping_add
WAddCarry(a, b) ==
    LET s1 == a[1] + b[1]
        s2 == a[2] + b[2] + (s1 \div 65536)
        s3 == a[3] + b[3] + (s2 \div 65536)
        s4 == a[4] + b[4] + (s3 \div 65536)
    IN  <<s1 % 65536, s2 % 65536, s3 % 65536, s4 % 65536>>

WAdd(a, b) == The({WAddCarry(p[1], p[2]) : p \in {<<a, b>>}})

\* u64::rotate_left
WRotlLimbs(w, n) ==
    LET q == n \div 16
        r == n % 16
        byLimb(i) == w[((i - 1 - q) % 4) + 1]
    IN  IF r = 0 THEN [i \in 1..4 |-> byLimb(i)]
        ELSE [i \in 1..4 |->
                (byLimb(i) % Pow2(16 - r)) * Pow2(r)
                + (byLimb(((i - 2) % 4) + 1) \div Pow2(16 - r))]

WRotl(w, n) == The({WRotlLimbs(x, n) : x \in {w}})

\* one SipRound on the state <<v0, v1, v2, v3>>, in four steps
\* v0 += v1; v1 <<<= 13; v2 += v3; v3 <<<= 16
SipRoundA(v) == <<WAdd(v[1], v[2]), WRotl(v[2], 13), WAdd(v[3], v[4]), WRotl(v[4], 16)>>
\* v1 ^= v0; v0 <<<= 32; v3 ^= v2
SipRoundB(v) == <<WRotl(v[1], 32), WXor(v[2], v[1]), v[3], WXor(v[4], v[3])>>
\* v0 += v3; v3 <<<= 21; v2 += v1; v1 <<<= 17
SipRoundC(v) == <<WAdd(v[1], v[4]), WRotl(v[2], 17), WAdd(v[3], v[2]), WRotl(v[4], 21)>>
\* v3 ^= v0; v1 ^= v2; v2 <<<= 32
SipRoundD(v) == <<v[1], WXor(v[2], v[3]), WRotl(v[3], 32), WXor(v[4], v[1])>>

SipRound(v) ==
    The({SipRoundD(d) : d \in
        {SipRoundC(c) : c \in
            {SipRoundB(b) : b \in
                {SipRoundA(a) : a \in {v}}}}})

\* DefaultHasher::new(): the SipHash-1-3 state for the key (0, 0)
SipInit ==
    << <<25973, 28787, 28005, 29551>>,
       <<28525, 28260, 29281, 25711>>,
       <<29281, 28261, 26469, 27769>>,
       <<25971, 31092, 25698, 29797>> >>

\* the little-endian word of bytes m[from .. from+7], bytes past the end
\* being zero and the top byte being `top` when given (>= 0)
LeWord(m, from, top) ==
    LET byte(i) == IF i = 7 /\ top >= 0 THEN top
                   ELSE IF from + i <= Len(m) THEN m[from + i] ELSE 0
    IN  [j \in 1..4 |-> byte(2 * (j - 1)) + 256 * byte(2 * (j - 1) + 1)]

\* one message word: v3 ^= m; c_rounds (1); v0 ^= m
SipCompress(v, m) ==
    The({<<WXor(x[1], p[2]), x[2], x[3], x[4]>> :
            x \in {SipRound(<<p[1][1], p[1][2], p[1][3], WXor(p[1][4], p[2])>>) :
                      p \in {<<v, m>>}},
            p \in {<<v, m>>}})

\* Hasher::write: the full 8-byte words of the message
RECURSIVE SipBlocks(_, _, _)
SipBlocks(v, msg, from) ==
    IF from + 7 <= Len(msg)
    THEN SipBlocks(SipCompress(v, LeWord(msg, from, -1)), msg, from + 8)
    ELSE v

\* Hasher::finish: the last word carries the length, then v2 ^= 0xff and
\* d_rounds (3); the digest is v0 ^ v1 ^ v2 ^ v3
SipLast(msg) ==
    SipCompress(SipBlocks(SipInit, msg, 1),
                LeWord(msg, Len(msg) - (Len(msg) % 8) + 1, Len(msg) % 256))

SipFinish(msg) ==
    The({WXor(WXor(f[1], f[2]), WXor(f[3], f[4])) :
            f \in {SipRound(SipRound(SipRound(
                      <<v[1], v[2], WXor(v[3], <<255, 0, 0, 0>>), v[4]>>))) :
                      v \in {SipLast(m) : m \in {msg}}}})

\* the bytes of the text without the terminating byte
StrHash_NoTerminator(s) == s

\* <str as Hash>::hash: the bytes of the text, then the byte 0xff
StrHash(s) == s \o <<255>>

HexDigit(d) == <<"0", "1", "2", "3", "4", "5", "6", "7",
                 "8", "9", "a", "b", "c", "d", "e", "f">>[d + 1]

\* format!("{:x}", u64): lower-case hexadecimal without leading zeros
RECURSIVE HexLimbs(_, _)
HexLimbs(w, i) ==
    IF i = 0 THEN ""
    ELSE LET l == w[i]
             d == <<l \div 4096, (l \div 256) % 16, (l \div 16) % 16, l % 16>>
             lead == \A j \in (i + 1)..4 : w[j] = 0
             first == IF \E k \in 1..4 : d[k] # 0
                      THEN CHOOSE k \in 1..4 : d[k] # 0 /\ \A m \in 1..(k - 1) : d[m] = 0
                      ELSE 5
             digits(k) == IF lead /\ k < first THEN "" ELSE HexDigit(d[k])
         IN  digits(1) \o digits(2) \o digits(3) \o digits(4) \o HexLimbs(w, i - 1)

LowerHex(w) == The({IF x = <<0, 0, 0, 0>> THEN "0" ELSE HexLimbs(x, 4) : x \in {w}})

\* Cache::generate_key: the four fields are hashed in the order query, os,
\* shell, mode, and the digest is formatted
generate_key(query, os, shell, mode) ==
    LowerHex(SipFinish(StrHash(query) \o StrHash(os) \o StrHash(shell) \o StrHash(mode)))

(***************************************************************************)
(* Text: byte sequences.  Option values: None, Some(x).                    *)
(***************************************************************************)
None == <<>>
Some(x) == <<x>>

\* "ls"
TXT_LS == <<108, 115>>
\* "linux"
TXT_LINUX == <<108, 105, 110, 117, 120>>
\* "zsh"
TXT_ZSH == <<122, 115, 104>>
\* "/a", "/b": two working directories
TXT_DIR_A == <<47, 97>>
TXT_DIR_B == <<47, 98>>
\* provider responses: "ls -a", and "ls -l" + "\r\n\n" + "détail" (three lines,
\* a two-byte character in the last)
TXT_RESP_1 == <<108, 115, 32, 45, 97>>
TXT_RESP_2 == <<108, 115, 32, 45, 108, 13, 10, 10, 100, 195, 169, 116, 97, 105, 108>>
\* lines read from stdin at the confirmation prompt: "y\n", " Y \n", "n\n", "yes\n"
TXT_ANS_Y == <<121, 10>>
TXT_ANS_Y2 == <<32, 89, 32, 10>>
TXT_ANS_N == <<110, 10>>
TXT_ANS_YES == <<121, 101, 115, 10>>
\* end of input: read_line leaves the line empty
TXT_ANS_EOF == <<>>

\* str::trim, on the ASCII white space the model's texts contain
IsSpace(c) == c \in {9, 10, 11, 12, 13, 32}

RECURSIVE TrimStart(_)
TrimStart(s) == IF s # <<>> /\ IsSpace(Head(s)) THEN TrimStart(Tail(s)) ELSE s

RECURSIVE TrimEnd(_)
TrimEnd(s) ==
    IF s # <<>> /\ IsSpace(s[Len(s)]) THEN TrimEnd(SubSeq(s, 1, Len(s) - 1)) ELSE s

Trim(s) == TrimEnd(TrimStart(s))

\* str::eq_ignore_ascii_case
AsciiLower(c) == IF c >= 65 /\ c <= 90 THEN c + 32 ELSE c

\* a comparison that accepts every text beginning with the expected one
EqIgnoreAsciiCase_Prefix(s, t) ==
    Len(s) >= Len(t) /\ \A i \in 1..Len(t) : AsciiLower(s[i]) = AsciiLower(t[i])

EqIgnoreAsciiCase(s, t) ==
    Len(s) = Len(t) /\ \A i \in 1..Len(s) : AsciiLower(s[i]) = AsciiLower(t[i])

\* str::lines: the text split at "\n", a "\r" before the "\n" dropped, no
\* empty last line after a final "\n"
RECURSIVE Lines(_)
Lines(s) ==
    IF s = <<>> THEN <<>>
    ELSE LET nl    == {i \in 1..Len(s) : s[i] = 10}
             stop  == IF nl = {} THEN Len(s) + 1
                      ELSE CHOOSE i \in nl : \A j \in nl : i <= j
             raw   == SubSeq(s, 1, stop - 1)
             line  == IF nl # {} /\ raw # <<>> /\ raw[Len(raw)] = 13
                      THEN SubSeq(raw, 1, Len(raw) - 1) ELSE raw
         IN  <<line>> \o Lines(SubSeq(s, stop + 1, Len(s)))

\* res.lines().next().unwrap_or(&res)
FirstLineOr(res) == IF Lines(res) = <<>> THEN res ELSE Lines(res)[1]

\* lines.collect::<Vec<_>>().join("\n")
RECURSIVE JoinLines(_)
JoinLines(ls) ==
    IF ls = <<>> THEN <<>>
    ELSE IF Len(ls) = 1 THEN ls[1]
    ELSE ls[1] \o <<10>> \o JoinLines(Tail(ls))

\* String::from_utf8(bytes).is_ok(): well-formed UTF-8 (no overlong forms, no
\* surrogates, nothing above U+10FFFF)
IsCont(b) == b >= 128 /\ b <= 191

RECURSIVE IsUtf8From(_, _)
IsUtf8From(bs, i) ==
    IF i > Len(bs) THEN TRUE
    ELSE LET b == bs[i]
             n == Len(bs) - i + 1
         IN  IF b <= 127 THEN IsUtf8From(bs, i + 1)
             ELSE IF b >= 194 /\ b <= 223
                  THEN n >= 2 /\ IsCont(bs[i + 1]) /\ IsUtf8From(bs, i + 2)
             ELSE IF b >= 224 /\ b <= 239
                  THEN /\ n >= 3
                       /\ IsCont(bs[i + 1]) /\ IsCont(bs[i + 2])
                       /\ (b = 224 => bs[i + 1] >= 160)
                       /\ (b = 237 => bs[i + 1] <= 159)
                       /\ IsUtf8From(bs, i + 3)
             ELSE IF b >= 240 /\ b <= 244
                  THEN /\ n >= 4
                       /\ IsCont(bs[i + 1]) /\ IsCont(bs[i + 2]) /\ IsCont(bs[i + 3])
                       /\ (b = 240 => bs[i + 1] >= 144)
                       /\ (b = 244 => bs[i + 1] <= 143)
                       /\ IsUtf8From(bs, i + 4)
             ELSE FALSE

IsUtf8(bytes) == The({IsUtf8From(bs, 1) : bs \in {bytes}})

(***************************************************************************)
(* Request modes, prompt and options (src/main.rs).                        *)
(***************************************************************************)
RequestMode == {"Standard", "Verbose", "Alt", "Explain"}

\* "standard", "verbose", "alt", "explain"
mode_str(mode) ==
    CASE mode = "Standard" -> <<115, 116, 97, 110, 100, 97, 114, 100>>
      [] mode = "Verbose"  -> <<118, 101, 114, 98, 111, 115, 101>>
      [] mode = "Alt"      -> <<97, 108, 116>>
      [] mode = "Explain"  -> <<101, 120, 112, 108, 97, 105, 110>>

\* no tag for any mode
mode_tag_Empty(mode) == <<>>

\* "", " [verbose]", " [alt]", ""
mode_tag(mode) ==
    CASE mode = "Standard" -> <<>>
      [] mode = "Verbose"  -> <<32, 91, 118, 101, 114, 98, 111, 115, 101, 93>>
      [] mode = "Alt"      -> <<32, 91, 97, 108, 116, 93>>
      [] mode = "Explain"  -> <<>>

\* ShellContext::as_prompt_context: the three fields, one per line
as_prompt_context(context) ==
    context.os \o <<10>> \o context.shell \o <<10>> \o context.cwd

\* format!("{}\n\n<request>{}{}</request>", context.as_prompt_context(), input, mode_tag)
gen_prompt(context, input, mode) ==
    as_prompt_context(context) \o <<10, 10>>
        \o <<60, 114, 101, 113, 117, 101, 115, 116, 62>>
        \o input \o mode_tag(mode)
        \o <<60, 47, 114, 101, 113, 117, 101, 115, 116, 62>>

get_instructions(mode) ==
    IF mode = "Explain" THEN "EXPLAIN_INSTRUCTIONS" ELSE "INSTRUCTIONS"

\* the same budget for every mode
get_max_tokens_Flat(mode) == 256

get_max_tokens(mode) ==
    IF mode = "Standard" THEN 256 ELSE 512

\* RequestOptions { max_tokens, temperature: 0.2, model: None } with the
\* instructions and the prompt: what conduit::request is handed
RequestFor(context, input, mode) ==
    [instructions |-> get_instructions(mode),
     prompt       |-> gen_prompt(context, input, mode),
     max_tokens   |-> get_max_tokens(mode),
     temperature  |-> "0.2"]

(***************************************************************************)
(* The cache (src/cache.rs).  The store maps keys to stored bytes; openOk, *)
(* readOk and writeOk are what the store's open, get and insert answer.    *)
(***************************************************************************)
\* a lookup that never finds an entry
Cache_get_NeverFinds(store, key, readOk) == None

\* a lookup that returns the stored bytes without decoding them
Cache_get_Undecoded(store, key, readOk) ==
    IF readOk /\ key \in DOMAIN store THEN Some(store[key]) ELSE None

\* Cache::get: .ok() drops a read error, .flatten() an absent key, and
\* String::from_utf8(..).ok() bytes that do not decode
Cache_get(store, key, readOk) ==
    IF ~readOk THEN None
    ELSE IF key \notin DOMAIN store THEN None
    ELSE IF IsUtf8(store[key]) THEN Some(store[key])
    ELSE None

\* Cache::insert: let _ = db.insert(key, response.as_bytes())
\* an insert that leaves the new entry alone in the store
Cache_insert_DropsOthers(store, key, response, writeOk) ==
    IF writeOk THEN (key :> response) ELSE store

\* an insert that keeps the entry a key already has
Cache_insert_KeepsFirst(store, key, response, writeOk) ==
    IF writeOk /\ key \notin DOMAIN store THEN (key :> response) @@ store ELSE store

Cache_insert(store, key, response, writeOk) ==
    IF writeOk THEN (key :> response) @@ store ELSE store

(***************************************************************************)
(* The provider client (src/client.rs).  An HTTP answer is a transport     *)
(* error, an error status, or a success body with its list of texts.       *)
(***************************************************************************)
Provider == {"OpenAI", "Anthropic", "Ollama"}

Ok(text) == [ok |-> TRUE, val |-> text]
Err(e) == [ok |-> FALSE, val |-> e]

HttpAnswers ==
    {[kind |-> "transport_error", content |-> <<>>],
     [kind |-> "error_status", content |-> <<>>],
     [kind |-> "success", content |-> <<>>],
     [kind |-> "success", content |-> <<TXT_RESP_1>>],
     [kind |-> "success", content |-> <<TXT_RESP_2>>]}

\* each request_* answers [http |-> HTTP requests sent, result |-> Result]
request_openai(answer) ==
    [http   |-> 1,
     result |-> IF answer.kind # "success" THEN Err("OpenAIError")
                ELSE IF answer.content = <<>> THEN Err("Empty response")
                ELSE Ok(answer.content[1])]

\* the credential looked at once the request has been sent
request_anthropic_SendsFirst(apiKeySet, answer) ==
    [http   |-> 1,
     result |-> IF ~apiKeySet THEN Err("ANTHROPIC_API_KEY not set")
                ELSE IF answer.kind = "transport_error" THEN Err("reqwest::Error")
                ELSE IF answer.kind = "error_status" THEN Err("Anthropic API error")
                ELSE IF answer.content = <<>> THEN Err("Empty response from Anthropic")
                ELSE Ok(answer.content[1])]

request_anthropic(apiKeySet, answer) ==
    IF ~apiKeySet
    THEN [http |-> 0, result |-> Err("ANTHROPIC_API_KEY not set")]
    ELSE [http   |-> 1,
          result |-> IF answer.kind = "transport_error" THEN Err("reqwest::Error")
                     ELSE IF answer.kind = "error_status" THEN Err("Anthropic API error")
                     ELSE IF answer.content = <<>> THEN Err("Empty response from Anthropic")
                     ELSE Ok(answer.content[1])]

request_ollama(answer) ==
    [http   |-> 1,
     result |-> IF answer.kind = "transport_error" THEN Err("reqwest::Error")
                ELSE IF answer.kind = "error_status"
                     THEN Err("Ollama error. Is Ollama running?")
                \* a body without message.content does not deserialize
                ELSE IF answer.content = <<>> THEN Err("reqwest::Error")
                ELSE Ok(answer.content[1])]

make_request(provider, apiKeySet, answer) ==
    CASE provider = "OpenAI"    -> request_openai(answer)
      [] provider = "Anthropic" -> request_anthropic(apiKeySet, answer)
      [] provider = "Ollama"    -> request_ollama(answer)

(***************************************************************************)
(* Command lines and shell contexts of the invocations.                    *)
(***************************************************************************)
BaseArgs ==
    [command |-> None, input |-> <<>>, verbose |-> FALSE, alt |-> FALSE,
     execute |-> FALSE, history |-> FALSE, config |-> FALSE, upgrade |-> FALSE]

\* knock ls / knock -v ls / knock -a -v ls / knock explain ls / knock /
\* knock --history / knock --config / knock --upgrade
ArgVectors ==
    {[BaseArgs EXCEPT !.input = TXT_LS],
     [BaseArgs EXCEPT !.input = TXT_LS, !.verbose = TRUE],
     [BaseArgs EXCEPT !.input = TXT_LS, !.alt = TRUE, !.verbose = TRUE],
     [BaseArgs EXCEPT !.command = Some(TXT_LS)],
     BaseArgs,
     [BaseArgs EXCEPT !.history = TRUE],
     [BaseArgs EXCEPT !.config = TRUE],
     [BaseArgs EXCEPT !.upgrade = TRUE]}

\* knock -x ls / knock -x -v ls / knock -a ls / knock -x -a ls /
\* knock -x explain ls
ArgVectorsCli ==
    {[BaseArgs EXCEPT !.input = TXT_LS, !.execute = TRUE],
     [BaseArgs EXCEPT !.input = TXT_LS, !.execute = TRUE, !.verbose = TRUE],
     [BaseArgs EXCEPT !.input = TXT_LS, !.alt = TRUE],
     [BaseArgs EXCEPT !.input = TXT_LS, !.alt = TRUE, !.execute = TRUE],
     [BaseArgs EXCEPT !.command = Some(TXT_LS), !.execute = TRUE]}

\* ShellContext::detect: the same machine, in one of two directories
ContextIn(dir) == [os |-> TXT_LINUX, shell |-> TXT_ZSH, cwd |-> dir]
Contexts == {ContextIn(TXT_DIR_A), ContextIn(TXT_DIR_B)}

\* the invocations: every command line in /a, and knock ls in /b as well
Invocations ==
    {<<a, ContextIn(TXT_DIR_A)>> : a \in ArgVectors}
        \cup {<<[BaseArgs EXCEPT !.input = TXT_LS], ContextIn(TXT_DIR_B)>>}

InvocationsCli == {<<a, ContextIn(TXT_DIR_A)>> : a \in ArgVectorsCli}

Answers == {TXT_ANS_Y, TXT_ANS_Y2, TXT_ANS_N, TXT_ANS_YES, TXT_ANS_EOF}

IsExplain(args) == args.command # None

\* the text the request is about: the query, or the command to explain
InputOf(args) == IF IsExplain(args) THEN args.command[1] ELSE args.input

\* main: "Determine request mode"; explain_command uses RequestMode::Explain
ModeOf(args) ==
    IF IsExplain(args) THEN "Explain"
    ELSE IF args.alt THEN "Alt"
    ELSE IF args.verbose THEN "Verbose"
    ELSE "Standard"

\* the keys of the invocations, computed once
KeyInputs ==
    {<<InputOf(a), c.os, c.shell, mode_str(ModeOf(a))>> :
        a \in ArgVectors \cup ArgVectorsCli, c \in Contexts}

\* the keys of the requests, tabulated once
KeyTable == [t \in KeyInputs |-> generate_key(t[1], t[2], t[3], t[4])] @@ <<>>

\* a key that also covers the working directory
cache_key_WithCwd(args, context) ==
    generate_key(InputOf(args) \o context.cwd, context.os, context.shell,
                 mode_str(ModeOf(args)))

\* Cache::generate_key(&args.input, &context.os, &context.shell, mode_str)
cache_key(args, context) ==
    KeyTable[<<InputOf(args), context.os, context.shell, mode_str(ModeOf(args))>>]

(***************************************************************************)
(* State.                                                                  *)
(***************************************************************************)
Procs == 1..MaxProcs

VARIABLES
    db,        \* the store at ~/.knock/cache: key -> stored bytes
    history,   \* the history log: <<query, command>> entries
    env,       \* the configured provider, and whether ANTHROPIC_API_KEY is set
    proc,      \* the process invocations, in the order they are started
    probe,     \* the last call made by a function specification, with its result
    lastPut    \* per key, the last Cache::insert call of a function specification

vars == <<db, history, env, proc, probe, lastPut>>

\* the main specifications call no function on its own
NoProbe == UNCHANGED <<probe, lastPut>>

Terminal == {"done", "panicked", "exited", "returned"}

InitProc ==
    [pc        |-> "init",
     args      |-> BaseArgs,
     context   |-> [os |-> <<>>, shell |-> <<>>, cwd |-> <<>>],
     config    |-> "",       \* Config::load: the provider
     key       |-> "",
     overlap   |-> {},       \* the processes in flight when this one started
     opened    |-> "no",     \* Cache::load: "no", "ok", "failed"
     read      |-> "no",     \* cache.get's store read: "no", "ok", "failed"
     cached    |-> None,     \* what cache.get returned
     request   |-> None,     \* what the provider was handed
     provCalls |-> 0,        \* calls of the provider
     httpCalls |-> 0,        \* HTTP requests sent
     outcome   |-> "no",     \* what the provider returned: "no", "text", "error"
     wrote     |-> "no",     \* cache.insert's store write: "no", "ok", "failed"
     res       |-> None,     \* the response text of the request
     error     |-> "",
     stdout    |-> <<>>,
     clipboard |-> None,
     answer    |-> None,     \* the line read at the "Execute? [y/N] " prompt
     executed  |-> None]

\* ANTHROPIC_API_KEY is read by the Anthropic variant alone
Envs ==
    {[provider |-> pr, apiKeySet |-> TRUE] : pr \in Provider}
        \cup {[provider |-> "Anthropic", apiKeySet |-> FALSE]}

Init ==
    /\ db = <<>>
    /\ history = <<>>
    /\ env \in Envs
    /\ proc = [p \in Procs |-> InitProc]
    /\ probe = None
    /\ lastPut = <<>>

\* one process at a time: p starts when every earlier invocation has ended
Sequential(p) ==
    /\ proc[p].pc = "init"
    /\ \A q \in Procs : q < p => proc[q].pc \in Terminal

(***************************************************************************)
(* main, after the response text is known (src/main.rs 196-245): history,  *)
(* display, clipboard, and the confirmation prompt.                        *)
(***************************************************************************)
\* History::add
History_add(h, query, command) == Append(h, <<query, command>>)

HistoryAfter(h, args, res) ==
    IF ~args.alt
    THEN History_add(h, args.input, IF args.verbose THEN FirstLineOr(res) ELSE res)
    ELSE h

\* whether the display step calls copy_to_clipboard
CopiesToClipboard(args, res) ==
    IF args.verbose THEN Lines(res) # <<>> ELSE ~args.alt

\* the record of the process after the display step
Display(r, args, res, clipOk) ==
    LET lines == Lines(res)
        expl  == Trim(JoinLines(Tail(lines)))
        cmd   == IF args.verbose THEN FirstLineOr(res) ELSE res
        shown == IF args.verbose
                 THEN (IF lines = <<>> THEN <<>> ELSE <<lines[1]>>)
                 ELSE <<res>>
        rest  == IF args.verbose /\ lines # <<>> /\ expl # <<>> THEN <<expl>> ELSE <<>>
    IN  IF CopiesToClipboard(args, res) /\ ~clipOk
        THEN [r EXCEPT !.pc = "panicked", !.res = Some(res), !.stdout = shown,
                       !.error = "Error copying to clipboard"]
        ELSE [r EXCEPT !.pc = IF args.execute /\ ~args.alt THEN "confirm" ELSE "done",
                       !.res = Some(res),
                       !.stdout = shown \o rest,
                       !.clipboard = IF CopiesToClipboard(args, res)
                                     THEN Some(cmd) ELSE None]

\* explain_command's output: the command, an empty line, the explanation
DisplayExplain(r, args, res) ==
    [r EXCEPT !.pc = "done", !.res = Some(res),
              !.stdout = <<args.command[1], <<>>, res>>]

\* the process and the history once the response text res is known
Finish(r, res, clipOk) ==
    IF IsExplain(r.args)
    THEN [proc |-> DisplayExplain(r, r.args, res), history |-> history]
    ELSE [proc |-> Display(r, r.args, res, clipOk),
          history |-> HistoryAfter(history, r.args, res)]

ClipChoices(args, res) ==
    IF ~IsExplain(args) /\ CopiesToClipboard(args, res) THEN BOOLEAN ELSE {TRUE}

(***************************************************************************)
(* main before the request pipeline (src/main.rs 129-155).                 *)
(***************************************************************************)
\* --upgrade: upgrade() reinstalls the tool; no request is made
RunUpgrade(p, args) ==
    /\ args.upgrade
    /\ proc' = [proc EXCEPT ![p] = [@ EXCEPT !.pc = "returned", !.args = args]]
    /\ UNCHANGED <<db, history, env>>
    /\ NoProbe

\* --config: conduit's setup lets the user choose the provider
RunConfig(p, args, provider) ==
    /\ ~args.upgrade /\ args.config
    /\ env' = [env EXCEPT !.provider = provider]
    /\ proc' = [proc EXCEPT ![p] = [@ EXCEPT !.pc = "returned", !.args = args]]
    /\ UNCHANGED <<db, history>>
    /\ NoProbe

\* show_history(""): the entries, query then command
RECURSIVE HistoryLines(_)
HistoryLines(h) ==
    IF h = <<>> THEN <<>>
    ELSE <<h[1][1], <<32, 32>> \o h[1][2]>> \o HistoryLines(Tail(h))

RunHistory(p, args) ==
    /\ ~args.upgrade /\ ~args.config /\ args.history
    /\ args.input = <<>>
    /\ proc' = [proc EXCEPT ![p] =
                  [@ EXCEPT !.pc = "returned", !.args = args,
                            !.stdout = HistoryLines(history)]]
    /\ UNCHANGED <<db, history, env>>
    /\ NoProbe

\* no subcommand and no query: "Error: Please provide a query", exit(1)
RunNoQuery(p, args) ==
    /\ ~args.upgrade /\ ~args.config /\ ~args.history
    /\ ~IsExplain(args) /\ args.input = <<>>
    /\ proc' = [proc EXCEPT ![p] =
                  [@ EXCEPT !.pc = "exited", !.args = args,
                            !.error = "Error: Please provide a query"]]
    /\ UNCHANGED <<db, history, env>>
    /\ NoProbe

(***************************************************************************)
(* The request pipeline of main (173-194) and explain_command (249-270),   *)
(* up to the provider's HTTP request.                                      *)
(***************************************************************************)
IsRequest(args) ==
    /\ ~args.upgrade /\ ~args.config /\ ~args.history
    /\ (IsExplain(args) \/ args.input # <<>>)

\* an error taken as an empty text (unwrap_or_default)
Expect_OrDefault(result) == [panic |-> FALSE, val |-> IF result.ok THEN result.val ELSE <<>>]

\* conduit::request(..).await.expect("Error getting response"): the text, or
\* a panic with the error
Expect(result) == [panic |-> ~result.ok, val |-> result.val]

\* the process with its context, its configuration and its key
Started(r, args, context) ==
    [r EXCEPT !.args = args, !.context = context, !.config = env.provider,
              !.key = cache_key(args, context),
              !.overlap = {q \in Procs : proc[q].pc = "awaiting"}]

\* Cache::load: sled::open(..).expect("Failed to open cache database")
RunOpenFails(p, args, context) ==
    /\ IsRequest(args)
    /\ proc' = [proc EXCEPT ![p] =
                  [Started(@, args, context) EXCEPT
                      !.pc = "panicked", !.opened = "failed",
                      !.error = "Failed to open cache database"]]
    /\ UNCHANGED <<db, history, env>>
    /\ NoProbe

\* cache.get(&cache_key) is Some(cached): the response is the cached text
RunHit(p, args, context, readOk, clipOk) ==
    LET r      == [Started(proc[p], args, context) EXCEPT
                      !.opened = "ok", !.read = IF readOk THEN "ok" ELSE "failed"]
        cached == Cache_get(db, r.key, readOk)
    IN  /\ IsRequest(args)
        /\ cached # None
        /\ clipOk \in ClipChoices(args, cached[1])
        /\ LET f == Finish([r EXCEPT !.cached = cached], cached[1], clipOk)
           IN  /\ proc' = [proc EXCEPT ![p] = f.proc]
               /\ history' = f.history
        /\ UNCHANGED <<db, env>>
        /\ NoProbe

\* cache.get(&cache_key) is None: the prompt and the options are built and
\* the provider is called; the process waits for the HTTP answer, unless the
\* provider fails before sending (.expect("Error getting response"))
RunMiss(p, args, context, readOk) ==
    LET r      == [Started(proc[p], args, context) EXCEPT
                      !.opened = "ok", !.read = IF readOk THEN "ok" ELSE "failed"]
        cached == Cache_get(db, r.key, readOk)
        call   == make_request(r.config, env.apiKeySet,
                               [kind |-> "transport_error", content |-> <<>>])
        asked  == [r EXCEPT
                      !.request = Some(RequestFor(context, InputOf(args), ModeOf(args))),
                      !.provCalls = @ + 1,
                      !.httpCalls = @ + call.http]
    IN  /\ IsRequest(args)
        /\ cached = None
        \* a failed read of an absent key is the same None as the absence
        /\ readOk \/ r.key \in DOMAIN db
        /\ proc' = [proc EXCEPT ![p] =
                      IF call.http = 0
                      THEN [asked EXCEPT !.pc = "panicked", !.outcome = "error",
                                         !.error = Expect(call.result).val]
                      ELSE [asked EXCEPT !.pc = "awaiting"]]
        /\ UNCHANGED <<db, history, env>>
        /\ NoProbe

\* the HTTP answer arrives: an error ends the process
\* (.expect("Error getting response")); a text is inserted into the cache
\* and is the response
ProviderAnswers(p, answer, writeOk, clipOk) ==
    LET call   == make_request(proc[p].config, env.apiKeySet, answer)
        r      == [proc[p] EXCEPT !.outcome = IF call.result.ok THEN "text" ELSE "error"]
        result == Expect(call.result)
    IN  /\ proc[p].pc = "awaiting"
        /\ IF result.panic
           THEN /\ writeOk /\ clipOk
                /\ proc' = [proc EXCEPT ![p] =
                              [r EXCEPT !.pc = "panicked", !.error = result.val]]
                /\ UNCHANGED <<db, history>>
           ELSE /\ clipOk \in ClipChoices(r.args, result.val)
                /\ db' = Cache_insert(db, r.key, result.val, writeOk)
                /\ LET f == Finish([r EXCEPT !.wrote = IF writeOk THEN "ok" ELSE "failed"],
                                   result.val, clipOk)
                   IN  /\ proc' = [proc EXCEPT ![p] = f.proc]
                       /\ history' = f.history
        /\ UNCHANGED env
        /\ NoProbe

(***************************************************************************)
(* main 229-245: the answer to "Execute? [y/N] ".                          *)
(***************************************************************************)
\* the command the confirmation is about
CommandOf(r) == IF r.args.verbose THEN FirstLineOr(r.res[1]) ELSE r.res[1]

Confirm(p, line) ==
    /\ proc[p].pc = "confirm"
    /\ proc' = [proc EXCEPT ![p] =
                  [@ EXCEPT !.pc = "done",
                            !.answer = Some(line),
                            !.executed = IF EqIgnoreAsciiCase(Trim(line), <<121>>)
                                         THEN Some(CommandOf(proc[p]))
                                         ELSE None]]
    /\ UNCHANGED <<db, history, env>>
    /\ NoProbe

\* io::stdin().lock().read_line(&mut input).unwrap() on a read error
ConfirmReadFails(p) ==
    /\ proc[p].pc = "confirm"
    /\ proc' = [proc EXCEPT ![p] =
                  [@ EXCEPT !.pc = "panicked", !.error = "read_line"]]
    /\ UNCHANGED <<db, history, env>>
    /\ NoProbe

\* an invocation (args, context) of process p, the clipboard working or not
Start(p, args, context, clips) ==
    \/ RunUpgrade(p, args)
    \/ \E provider \in Provider : RunConfig(p, args, provider)
    \/ RunHistory(p, args)
    \/ RunNoQuery(p, args)
    \/ RunOpenFails(p, args, context)
    \/ \E readOk \in BOOLEAN :
          \/ \E clipOk \in clips : RunHit(p, args, context, readOk, clipOk)
          \/ RunMiss(p, args, context, readOk)

\* the invocations one after the other
Run(p, args, context, clips) ==
    /\ Sequential(p)
    /\ Start(p, args, context, clips)

Next ==
    \/ \E p \in Procs, inv \in Invocations : Run(p, inv[1], inv[2], {TRUE})
    \/ \E p \in Procs, answer \in HttpAnswers, writeOk \in BOOLEAN :
          ProviderAnswers(p, answer, writeOk, TRUE)

Spec == Init /\ [][Next]_vars

(***************************************************************************)
(* Function specifications: the pure functions and the cache operations    *)
(* called on their own, with inputs drawn from bounded sets.               *)
(***************************************************************************)
InitFunctions ==
    /\ db = <<>>
    /\ history = <<>>
    /\ env = [provider |-> "OpenAI", apiKeySet |-> TRUE]
    /\ proc = [p \in Procs |-> InitProc]
    /\ probe = None
    /\ lastPut = <<>>

\* "a", "b"
Alphabet == {97, 98}

RECURSIVE StrsUpTo(_)
StrsUpTo(n) ==
    IF n = 0 THEN {<<>>}
    ELSE {s \o t : s \in StrsUpTo(n - 1), t \in {<<>>} \cup {<<c>> : c \in Alphabet}}

KeyFields == StrsUpTo(MaxStrLen)

\* "", "a", "b"
ShortTexts == StrsUpTo(1)

\* (query, os, shell, mode): a query of at most MaxStrLen bytes, short texts
\* for os and shell, and a mode name or a short text
KeyTuples ==
    KeyFields \X ShortTexts \X ShortTexts
        \X ({mode_str(m) : m \in RequestMode} \cup ShortTexts)

\* the key of every tuple, tabulated once
ProbeKeys == [t \in KeyTuples |-> generate_key(t[1], t[2], t[3], t[4])] @@ <<>>

KeyProbe(t) ==
    /\ probe = None
    /\ probe' = [op |-> "generate_key", in |-> t, out |-> ProbeKeys[t]]
    /\ UNCHANGED <<db, history, env, proc, lastPut>>

PromptProbe(context, input, mode) ==
    /\ probe = None
    /\ probe' = [op |-> "gen_prompt", in |-> <<context, input, mode>>,
                 out |-> gen_prompt(context, input, mode)]
    /\ UNCHANGED <<db, history, env, proc, lastPut>>

NextPure ==
    \/ \E t \in KeyTuples : KeyProbe(t)
    \/ \E context \in Contexts, input \in KeyFields \cup {TXT_LS}, mode \in RequestMode :
          PromptProbe(context, input, mode)

SpecPure == InitFunctions /\ [][NextPure]_vars

\* two keys of the store
CacheKeys ==
    {cache_key(a, ContextIn(TXT_DIR_A)) :
        a \in {[BaseArgs EXCEPT !.input = TXT_LS], [BaseArgs EXCEPT !.command = Some(TXT_LS)]}}

\* UTF-8 texts: "", "ls -a", a text with a two-byte character, a four-byte
\* character (U+1F600)
CacheTexts == {<<>>, TXT_RESP_1, TXT_RESP_2, <<240, 159, 152, 128>>}

CachePut(key, response, writeOk) ==
    /\ db' = Cache_insert(db, key, response, writeOk)
    /\ lastPut' = (key :> [val |-> response, ok |-> writeOk]) @@ lastPut
    /\ probe' = [op |-> "insert", in |-> <<key, response>>, out |-> None]
    /\ UNCHANGED <<history, env, proc>>

CacheGet(key, readOk) ==
    /\ probe' = [op |-> "get", in |-> <<key, readOk>>, out |-> Cache_get(db, key, readOk)]
    /\ UNCHANGED <<db, history, env, proc, lastPut>>

NextCache ==
    \/ \E key \in CacheKeys, response \in CacheTexts, writeOk \in BOOLEAN :
          CachePut(key, response, writeOk)
    \/ \E key \in CacheKeys, readOk \in BOOLEAN : CacheGet(key, readOk)

SpecCache == InitFunctions /\ [][NextCache]_vars

(***************************************************************************)
(* The requests against a store that already holds bytes written by        *)
(* another writer of ~/.knock/cache under the key of `knock ls`.           *)
(***************************************************************************)
\* 0xff; a lead byte without its continuation; an encoded surrogate; and a
\* well-formed text ("ls")
ForeignBytes == {<<255>>, <<195>>, <<237, 160, 128>>, TXT_LS}

PreStores ==
    {(cache_key([BaseArgs EXCEPT !.input = TXT_LS], ContextIn(TXT_DIR_A)) :> bytes) :
        bytes \in ForeignBytes}

InitEnv ==
    /\ db \in PreStores
    /\ history = <<>>
    /\ env = [provider |-> "OpenAI", apiKeySet |-> TRUE]
    /\ proc = [p \in Procs |-> InitProc]
    /\ probe = None
    /\ lastPut = <<>>

SpecEnv == InitEnv /\ [][Next]_vars

\* the command-line layer: -x and the confirmation, a clipboard that may fail
NextCli ==
    \/ \E p \in Procs, inv \in InvocationsCli : Run(p, inv[1], inv[2], BOOLEAN)
    \/ \E p \in Procs, answer \in HttpAnswers, writeOk \in BOOLEAN, clipOk \in BOOLEAN :
          ProviderAnswers(p, answer, writeOk, clipOk)
    \/ \E p \in Procs, line \in Answers : Confirm(p, line)
    \/ \E p \in Procs : ConfirmReadFails(p)

\* one configuration: the provider does not matter to the command line
InitCli ==
    /\ db = <<>>
    /\ history = <<>>
    /\ env = [provider |-> "OpenAI", apiKeySet |-> TRUE]
    /\ proc = [p \in Procs |-> InitProc]
    /\ probe = None
    /\ lastPut = <<>>

SpecCli == InitCli /\ [][NextCli]_vars

(***************************************************************************)
(* Concurrent invocations: a process may start while others wait for the   *)
(* provider.  Each step holds at most one access to the store, and the     *)
(* provider call is the one point where a process waits.                   *)
(***************************************************************************)
\* knock ls in /a and in /b (one key), knock -v ls in /a (another key)
InvocationsConc ==
    {<<[BaseArgs EXCEPT !.input = TXT_LS], ContextIn(TXT_DIR_A)>>,
     <<[BaseArgs EXCEPT !.input = TXT_LS], ContextIn(TXT_DIR_B)>>,
     <<[BaseArgs EXCEPT !.input = TXT_LS, !.verbose = TRUE], ContextIn(TXT_DIR_A)>>}

\* p starts once the processes before it have started, ended or not
RunConcurrently(p, args, context) ==
    /\ proc[p].pc = "init"
    /\ \A q \in Procs : q < p => proc[q].pc # "init"
    /\ Start(p, args, context, {TRUE})

NextConc ==
    \/ \E p \in Procs, inv \in InvocationsConc : RunConcurrently(p, inv[1], inv[2])
    \/ \E p \in Procs, answer \in HttpAnswers, writeOk \in BOOLEAN :
          ProviderAnswers(p, answer, writeOk, TRUE)

SpecConc == Init /\ [][NextConc]_vars

(***************************************************************************)
(* Properties.                                                             *)
(***************************************************************************)
\* the process has gone through the request pipeline
Req(r) == r.pc # "init" /\ IsRequest(r.args)

\* the same (input, os, shell, mode)
SameRequest(a, b) ==
    /\ InputOf(a.args) = InputOf(b.args)
    /\ a.context.os = b.context.os
    /\ a.context.shell = b.context.shell
    /\ ModeOf(a.args) = ModeOf(b.args)

\* request i missed the cache and the provider succeeded with proc[i].res
MissServed(i) ==
    /\ Req(proc[i])
    /\ proc[i].opened = "ok"
    /\ proc[i].cached = None
    /\ proc[i].provCalls = 1
    /\ proc[i].res # None

\* request j is the next request after i with the same (input, os, shell, mode)
NextIdentical(i, j) ==
    /\ i < j
    /\ Req(proc[j])
    /\ SameRequest(proc[i], proc[j])
    /\ \A k \in Procs : i < k /\ k < j => ~(Req(proc[k]) /\ SameRequest(proc[i], proc[k]))

\* request j answered from the cache what the provider answered to request i
ServedFromCache(i, j) ==
    /\ proc[j].res = proc[i].res
    /\ proc[j].provCalls = 0
    /\ proc[j].httpCalls = 0
    /\ proc[j].wrote = "no"

\* C1 as stated: if a first request misses the cache and the provider
\* succeeds with text T, the next request with the identical (input, os,
\* shell, mode) returns exactly T, without a provider call and without a
\* cache write.
C1_SecondIdenticalRequestHits ==
    \A i, j \in Procs :
        MissServed(i) /\ NextIdentical(i, j) => ServedFromCache(i, j)

\* C1, amended: the same, when the first request's cache write succeeded and
\* the second request's cache lookup read the store successfully.
C1_SecondRequestHitsWhenStoreWorks ==
    \A i, j \in Procs :
        /\ MissServed(i) /\ proc[i].wrote = "ok"
        /\ NextIdentical(i, j)
        /\ proc[j].read = "ok"
        => /\ ServedFromCache(i, j)
           /\ proc[j].cached = proc[i].res
           /\ proc[j].pc = "done"

\* a second identical request was answered from the cache with a non-empty
\* text the provider gave to the first
C1_Witness ==
    \E i, j \in Procs :
        /\ MissServed(i) /\ proc[i].wrote = "ok" /\ proc[i].res # Some(<<>>)
        /\ NextIdentical(i, j)
        /\ proc[j].opened = "ok" /\ proc[j].read = "ok"
        /\ ServedFromCache(i, j)

\* the text of the four fields, one after the other
FieldText(t) == t[1] \o t[2] \o t[3] \o t[4]

IsGet(pr) == pr # None /\ pr.op = "get"

IsInsert(pr) == pr # None /\ pr.op = "insert"

\* an insert leaves what get returns for every other key as it was
InsertLeavesOtherKeys ==
    IsInsert(probe') =>
        \A key \in CacheKeys \ {probe'.in[1]}, readOk \in BOOLEAN :
            Cache_get(db', key, readOk) = Cache_get(db, key, readOk)

\* get(k) returns the text of the last insert(k, v)
GetReturnsLastInsert ==
    (IsGet(probe) /\ probe.in[1] \in DOMAIN lastPut) =>
        probe.out = Some(lastPut[probe.in[1]].val)

\* the same, when that insert's store write and the get's store read succeeded
GetReturnsLastWrittenInsert ==
    (/\ IsGet(probe) /\ probe.in[2]
     /\ probe.in[1] \in DOMAIN lastPut
     /\ lastPut[probe.in[1]].ok) =>
        probe.out = Some(lastPut[probe.in[1]].val)

\* C3 as stated: insert(k, v) followed by get(k), with no insert on k in
\* between, returns exactly v, for every key and every UTF-8 text; and what
\* get returns for any other key is unaffected by the insert.
C3_RoundTrip == [][GetReturnsLastInsert' /\ InsertLeavesOtherKeys]_vars

\* C3, amended: the same round trip when the store write of the insert and
\* the store read of the get succeed; an insert never affects another key.
C3_RoundTripWhenStoreWorks ==
    [][GetReturnsLastWrittenInsert' /\ InsertLeavesOtherKeys]_vars

\* a get returned the text with multi-byte characters that the last insert
\* on its key wrote over an earlier text, while another key holds another text
C3_Witness ==
    /\ IsGet(probe) /\ probe.in[2]
    /\ probe.in[1] \in DOMAIN lastPut /\ lastPut[probe.in[1]].ok
    /\ lastPut[probe.in[1]].val = TXT_RESP_2
    /\ probe.out = Some(TXT_RESP_2)
    /\ \E key \in DOMAIN db : key # probe.in[1] /\ db[key] = TXT_RESP_1

\* the provider call of the request returned an error
ProviderFailed(r) == r.outcome = "error"

\* nothing of a result: no text, no output, no clipboard, no command run
NothingReturned(r) ==
    /\ r.res = None
    /\ r.stdout = <<>>
    /\ r.clipboard = None
    /\ r.executed = None

\* C4: when the provider call fails on a cache miss the request ends in a
\* terminal failure: the provider was called exactly once, the step that
\* ends the request changes neither the store nor the history, nothing is
\* written under the request's key, no result text is returned, recorded or
\* displayed, and the process takes no further step.
C4_ProviderFailureIsTerminal ==
    [][\A p \in Procs :
          ProviderFailed(proc'[p]) =>
              /\ proc'[p].pc = "panicked"
              /\ proc'[p].cached = None
              /\ proc'[p].provCalls = 1
              /\ proc'[p].wrote = "no"
              /\ NothingReturned(proc'[p])
              /\ ~ProviderFailed(proc[p]) => (db' = db /\ history' = history)
              /\ ProviderFailed(proc[p]) => proc'[p] = proc[p]]_vars

\* a request ended on an HTTP error of the provider while the store already
\* held an entry (of another key) and the history an entry
C4_Witness ==
    \E p \in Procs :
        /\ ProviderFailed(proc[p])
        /\ proc[p].httpCalls = 1
        /\ proc[p].key \notin DOMAIN db
        /\ db # <<>>
        /\ history # <<>>

\* the store could not be opened, read or written during the request
StoreFailed(r) == r.opened = "failed" \/ r.read = "failed" \/ r.wrote = "failed"

\* C5 as stated: a failure to open, read or write the cache store never
\* terminates the request: the request behaves as a cache miss, calls the
\* provider, and returns the provider's text when the provider gives one.
C5_StoreFailureNeverTerminates ==
    \A p \in Procs :
        (StoreFailed(proc[p]) /\ proc[p].pc \in Terminal) =>
            /\ proc[p].provCalls = 1
            /\ proc[p].outcome = "text" => (proc[p].pc = "done" /\ proc[p].res # None)
            /\ proc[p].outcome = "error" => proc[p].error # "Failed to open cache database"

\* what does hold: a failed read or a failed write does not end the request
C5_ReadOrWriteFailureDegrades ==
    \A p \in Procs :
        (proc[p].pc \in Terminal /\ (proc[p].read = "failed" \/ proc[p].wrote = "failed")) =>
            /\ proc[p].provCalls = 1
            /\ proc[p].outcome = "text" => (proc[p].pc = "done" /\ proc[p].res # None)

\* on this step a request for the key missed in its lookup, got a text from
\* the provider and wrote it under the key
WrittenByProviderCall(key) ==
    \E p \in Procs :
        /\ proc[p].pc = "awaiting"
        /\ proc'[p].key = key
        /\ proc'[p].cached = None
        /\ proc'[p].provCalls = 1
        /\ proc'[p].outcome = "text"
        /\ proc'[p].wrote = "ok"
        /\ proc'[p].res = Some(db'[key])

\* the entries of the store stay, with their values
EntriesKept == \A key \in DOMAIN db : key \in DOMAIN db' /\ db'[key] = db[key]

\* C6 as stated: an entry is created only by a successful provider call for
\* its key and, once written, its value is never changed or removed.
C6_EntriesNeverChange ==
    [][/\ \A key \in DOMAIN db' \ DOMAIN db : WrittenByProviderCall(key)
       /\ EntriesKept]_vars

\* C6, amended: an entry is never removed, and it is created or changed only
\* by a successful provider call for its key, made after a lookup that
\* missed; the call's text becomes the value.
C6_EntriesWrittenByProviderCallsOnly ==
    [][/\ \A key \in DOMAIN db : key \in DOMAIN db'
       /\ \A key \in DOMAIN db' :
             (key \notin DOMAIN db \/ db'[key] # db[key]) => WrittenByProviderCall(key)]_vars

\* an entry written by one request holds the different text that a later
\* request for the same key, whose read of the entry failed, got from the
\* provider
C6_Witness ==
    \E i, j \in Procs :
        /\ i < j
        /\ proc[i].key = proc[j].key
        /\ proc[i].wrote = "ok" /\ proc[j].wrote = "ok"
        /\ proc[j].read = "failed"
        /\ proc[i].res # proc[j].res
        /\ proc[j].key \in DOMAIN db
        /\ proc[j].res = Some(db[proc[j].key])

\* the byte strings of ForeignBytes that are not UTF-8
Malformed == {<<255>>, <<195>>, <<237, 160, 128>>}

\* process p does its cache lookup on this step
LooksUp(p) == proc[p].pc = "init" /\ proc'[p].opened = "ok"

\* C7: Cache::get never yields an error: the lookup of a request returns the
\* stored text exactly when the read succeeds, bytes are stored under the
\* request's key and they decode as UTF-8; for an unseen key, a failed read
\* and malformed bytes it returns nothing, and the request proceeds as on a
\* miss: the provider is called.
C7_GetNeverFails ==
    [][\A p \in Procs :
          LooksUp(p) =>
              LET r     == proc'[p]
                  found == /\ r.read = "ok"
                           /\ r.key \in DOMAIN db
                           /\ db[r.key] \notin Malformed
              IN  /\ r.error = ""
                  /\ found => (r.cached = Some(db[r.key]) /\ r.pc = "done")
                  /\ ~found => /\ r.cached = None
                               /\ r.pc = "awaiting"
                               /\ r.provCalls = 1]_vars

\* a lookup read an encoded surrogate under the request's key, returned
\* nothing, and the request waits for the provider
C7_Witness ==
    \E p \in Procs :
        /\ proc[p].pc = "awaiting"
        /\ proc[p].read = "ok"
        /\ proc[p].cached = None
        /\ proc[p].key \in DOMAIN db
        /\ db[proc[p].key] = <<237, 160, 128>>

\* C8: with the Anthropic provider and ANTHROPIC_API_KEY unset, a request
\* that calls the provider fails with the missing-credential error and no
\* HTTP request is ever sent in that request.
C8_MissingCredentialFailsBeforeHttp ==
    \A p \in Procs :
        (proc[p].config = "Anthropic" /\ ~env.apiKeySet /\ proc[p].provCalls > 0) =>
            /\ proc[p].httpCalls = 0
            /\ proc[p].pc = "panicked"
            /\ proc[p].outcome = "error"
            /\ proc[p].error = "ANTHROPIC_API_KEY not set"

\* a request called the Anthropic provider without the key and ended on the
\* missing-credential error with no HTTP request sent
C8_Witness ==
    \E p \in Procs :
        /\ proc[p].config = "Anthropic" /\ ~env.apiKeySet
        /\ proc[p].provCalls = 1
        /\ proc[p].httpCalls = 0
        /\ proc[p].error = "ANTHROPIC_API_KEY not set"

\* the suffix of n elements of a text
Suffix(text, n) == SubSeq(text, Len(text) - n + 1, Len(text))

IsPrompt(pr) == pr # None /\ pr.op = "gen_prompt"

\* C9: for every (context, input, mode) the prompt is the context block, a
\* blank line, "<request>", the input, the mode tag (" [verbose]" for Verbose,
\* " [alt]" for Alt, none for Standard and Explain) and "</request>"; a
\* Verbose prompt ends with " [verbose]</request>" and a Standard prompt
\* with the input immediately followed by "</request>".
C9_PromptShape ==
    IsPrompt(probe) =>
        LET context == probe.in[1]
            input   == probe.in[2]
            mode    == probe.in[3]
            open    == <<60, 114, 101, 113, 117, 101, 115, 116, 62>>
            close   == <<60, 47, 114, 101, 113, 117, 101, 115, 116, 62>>
            verbose == <<32, 91, 118, 101, 114, 98, 111, 115, 101, 93>>
            alt     == <<32, 91, 97, 108, 116, 93>>
            tag     == IF mode = "Verbose" THEN verbose
                       ELSE IF mode = "Alt" THEN alt ELSE <<>>
            block   == as_prompt_context(context)
        IN  /\ probe.out = block \o <<10, 10>> \o open \o input \o tag \o close
            /\ mode = "Verbose" => Suffix(probe.out, 20) = verbose \o close
            /\ mode = "Standard" =>
                  /\ Suffix(probe.out, Len(input) + 10) = input \o close
                  /\ Suffix(probe.out, Len(input) + 19) = open \o input \o close

\* a Verbose prompt for "ls" was built, ending with " [verbose]</request>"
C9_Witness ==
    /\ IsPrompt(probe)
    /\ probe.in[2] = TXT_LS
    /\ probe.in[3] = "Verbose"
    /\ Suffix(probe.out, 22) =
          TXT_LS \o <<32, 91, 118, 101, 114, 98, 111, 115, 101, 93>>
                 \o <<60, 47, 114, 101, 113, 117, 101, 115, 116, 62>>

\* C10: every request that reaches the provider is handed a budget of 256
\* output tokens when its mode is Standard and of 512 when its mode is
\* Verbose, Alt or Explain.
C10_TokenBudget ==
    \A p \in Procs :
        proc[p].provCalls > 0 =>
            /\ proc[p].request # None
            /\ ModeOf(proc[p].args) = "Standard" => proc[p].request[1].max_tokens = 256
            /\ ModeOf(proc[p].args) \in {"Verbose", "Alt", "Explain"} =>
                  proc[p].request[1].max_tokens = 512

\* a plain request reached the provider with 256 and an explain request
\* with 512
C10_Witness ==
    \E p, q \in Procs :
        /\ proc[p].provCalls = 1 /\ proc[q].provCalls = 1
        /\ ModeOf(proc[p].args) = "Standard" /\ proc[p].request[1].max_tokens = 256
        /\ ModeOf(proc[q].args) = "Explain" /\ proc[q].request[1].max_tokens = 512

\* request j started while request i, for the same key, waited for the
\* provider, and no other process has to do with the key
ConcurrentPair(i, j) ==
    /\ i \in proc[j].overlap
    /\ proc[i].key = proc[j].key
    /\ \A k \in Procs \ {i, j} : proc[k].key # proc[i].key

\* C11 as stated: when two invocations with the same key run concurrently
\* against the same store, both miss and call the provider, each returns its
\* own provider response, and after both finish the value under the key is
\* the complete response of one of them.
C11_ConcurrentRequestsBothServed ==
    \A i, j \in Procs :
        (/\ ConcurrentPair(i, j)
         /\ proc[i].pc \in Terminal /\ proc[j].pc \in Terminal
         /\ proc[i].outcome = "text" /\ proc[j].outcome # "error") =>
            /\ proc[j].provCalls = 1 /\ proc[j].outcome = "text"
            /\ proc[i].res # None /\ proc[j].res # None
            /\ proc[i].key \in DOMAIN db
            /\ db[proc[i].key] \in {proc[i].res[1], proc[j].res[1]}

\* what does hold: when both open the store, both miss and call the provider
\* and each has its own text; the key then holds one of the two texts whole
\* if a write succeeded, and nothing if both writes failed
C11_WhenBothOpenTheStore ==
    \A i, j \in Procs :
        (/\ ConcurrentPair(i, j)
         /\ proc[i].pc \in Terminal /\ proc[j].pc \in Terminal
         /\ proc[j].opened = "ok"
         /\ proc[i].outcome = "text" /\ proc[j].outcome = "text") =>
            /\ proc[i].cached = None /\ proc[j].cached = None
            /\ proc[i].provCalls = 1 /\ proc[j].provCalls = 1
            /\ proc[i].res # None /\ proc[j].res # None
            /\ (proc[i].wrote = "ok" \/ proc[j].wrote = "ok") =>
                  /\ proc[i].key \in DOMAIN db
                  /\ db[proc[i].key] \in {proc[i].res[1], proc[j].res[1]}
            /\ (proc[i].wrote = "failed" /\ proc[j].wrote = "failed") =>
                  proc[i].key \notin DOMAIN db

\* requests i and j were issued from different working directories
OtherDirectory(i, j) == proc[i].context.cwd # proc[j].context.cwd

\* C12 as stated: two requests with identical (query, os, shell, mode) issued
\* from different working directories derive the same key, so the second is
\* a cache hit that returns the response produced for the first directory's
\* prompt, without calling the provider.
C12_OtherDirectoryHits ==
    \A i, j \in Procs :
        (MissServed(i) /\ NextIdentical(i, j) /\ OtherDirectory(i, j)) =>
            /\ proc[j].key = proc[i].key
            /\ ServedFromCache(i, j)

\* C12, amended: the two requests always derive the same key; the second is
\* a hit, returning the response to the prompt that embeds the first
\* directory, when the first request's cache write succeeded and the second
\* request's lookup read the store successfully.
C12_KeyIgnoresDirectory ==
    \A i, j \in Procs :
        (Req(proc[i]) /\ Req(proc[j]) /\ SameRequest(proc[i], proc[j])) =>
            /\ proc[j].key = proc[i].key
            /\ (/\ MissServed(i) /\ proc[i].wrote = "ok"
                /\ NextIdentical(i, j) /\ OtherDirectory(i, j)
                /\ proc[j].read = "ok") =>
                  /\ ServedFromCache(i, j)
                  /\ proc[j].request = None
                  /\ proc[i].request[1].prompt =
                        gen_prompt(proc[i].context, InputOf(proc[j].args),
                                   ModeOf(proc[j].args))

\* a request made in /b was answered from the cache with the text the
\* provider gave for the prompt of the same request made in /a
C12_Witness ==
    \E i, j \in Procs :
        /\ MissServed(i) /\ proc[i].wrote = "ok"
        /\ NextIdentical(i, j)
        /\ proc[i].context.cwd = TXT_DIR_A /\ proc[j].context.cwd = TXT_DIR_B
        /\ proc[j].read = "ok"
        /\ proc[j].res = proc[i].res /\ proc[j].res # Some(<<>>)
        /\ proc[j].provCalls = 0

\* the lines that are "y" once trimmed, whatever the case: "y\n", " Y \n"
YesLines == {<<121, 10>>, <<32, 89, 32, 10>>}

\* C13: a generated command is executed only in a request that had the
\* execute flag and not the alt flag, that obtained a response (from the
\* cache or the provider), and whose confirmation was answered "y" (any
\* case, trimmed); the command is the response, or its first line with
\* --verbose.  No other run executes anything: not an explain request, not
\* an answer other than "y", not a run that ended before the prompt.
C13_ExecutedOnlyWhenConfirmed ==
    \A p \in Procs :
        LET r == proc[p]
        IN  /\ r.executed # None =>
                  /\ r.args.execute /\ ~r.args.alt /\ r.args.command = None
                  /\ r.res # None
                  /\ r.answer # None /\ r.answer[1] \in YesLines
                  /\ r.pc = "done"
                  /\ r.executed \in {r.res, Some(FirstLineOr(r.res[1]))}
            /\ (r.answer # None /\ r.answer[1] \notin YesLines) => r.executed = None
            /\ r.answer # None => (r.args.execute /\ ~r.args.alt /\ r.res # None)

\* knock -x -v ls, answered from the cache, was confirmed with " Y " and the
\* first line of the response was executed; another run answered "yes" and
\* executed nothing
C13_Witness ==
    \E p, q \in Procs :
        /\ proc[p].args.execute /\ proc[p].args.verbose
        /\ proc[p].cached # None
        /\ proc[p].answer = Some(<<32, 89, 32, 10>>)
        /\ proc[p].executed = Some(FirstLineOr(proc[p].res[1]))
        /\ proc[p].executed # proc[p].res
        /\ proc[q].answer = Some(<<121, 101, 115, 10>>)
        /\ proc[q].executed = None

====
